---- MODULE Spec2Model ----
(***************************************************************************)
(* SACTorch (src/algos/pytorch/sac_sp/sac_per_her.py): the learning update *)
(* engine (learn, compute_loss_q, compute_loss_pi) and the action selector *)
(* (get_action) as a state machine.                                        *)
(*                                                                         *)
(* Numbers.  Parameters are exact fixed-point values: one unit of a live   *)
(* parameter is Unit = PolyakDen^MaxCalls, so that MaxCalls polyak         *)
(* averagings are exact.  polyak is a percentage (99 is 0.99).  The        *)
(* per-sample errors are kept in half units (1 is 0.5).  Every network     *)
(* (policy, Q1, Q2) has one scalar parameter; ac.parameters() enumerates   *)
(* them in the order pi, q1, q2.                                           *)
(*                                                                         *)
(* External collaborators (the networks' forward passes, Adam's update,    *)
(* the replay buffer's sampling, the random draws) are inputs drawn from   *)
(* small sets.  The scalar loss values are not modelled.                   *)
(***************************************************************************)
EXTENDS Integers, Sequences, FiniteSets, TLC

VARIABLES
    per_flag,        \* self.per_flag: prioritized mode
    policy_delay,    \* self.policy_delay
    polyak,          \* self.polyak, in percent
    action_noise,    \* self.action_noise
    a_bound,         \* self.a_bound
    replay_buffer,   \* the shape of what self.replay_buffer.sample_batch returns
    learn_step,      \* self.learn_step
    ac,              \* self.ac: parameter name -> value
    ac_targ,         \* self.ac_targ: parameter name -> value
    requires_grad,   \* p.requires_grad of the live parameters
    grad,            \* p.grad of the live parameters: backward passes accumulated
    q_params,        \* self.q_params: what the itertools.chain iterator still yields
    pc,              \* position of the caller inside learn / get_action
    data,            \* learn's local: the sampled batch
    fwd,             \* compute_loss_q's locals q1, q2, backup
    loss_info,       \* learn's local: the diagnostics of compute_loss_q
    batch_updates,   \* the replay_buffer.batch_update calls of the current learn()
    h,               \* history of the current learn() call
    act_ret          \* the last get_action call: its argument, locals and result

vars ==
    <<per_flag, policy_delay, polyak, action_noise, a_bound, replay_buffer,
      learn_step, ac, ac_targ, requires_grad, grad, q_params, pc, data, fwd,
      loss_info, batch_updates, h, act_ret>>

config == <<per_flag, policy_delay, polyak, action_noise, a_bound, replay_buffer>>

\* What the spec calls agent state: parameters, step counter, replay buffer.
agent == <<learn_step, ac, ac_targ, requires_grad, grad, q_params, batch_updates>>

locals == <<data, fwd, loss_info>>

--------------------------------------------------------------------------
\* Bounds of the model.

MaxCalls == 3
MaxDelay == 2
MaxBatch == 2
MaxAbsLen == 2

\* Denominator of polyak: polyak = 0.99 is 99 / PolyakDen.
PolyakDen == 100

RECURSIVE Pow(_, _)
Pow(b, n) ==
    IF n = 0 THEN 1 ELSE b * Pow(b, n - 1)

Unit == Pow(PolyakDen, MaxCalls)

PolyakPcts == {50, 99}

\* Adam's parameter update, in units.
Deltas == {-1, 1}

\* Per-sample (backup, q1, q2) the forward passes of learn may return.
FwdSamples == {<<1, 0, 1>>, <<0, 1, 1>>}

\* Configured action bounds and action noise; noise_scale arguments; the
\* actions the policy may return; the draws of randn.
ABounds == {1, 2}

NoiseScales == {0, 1}

RawActions == -3..3

RandnDraws == {-1, 0, 1}

\* Per-sample (backup, q1, q2) of the pure-function check of abs_errors.
AbsSamples == {<<b, x, y>> : b \in 1..4, x \in {1, 3, 5}, y \in {1, 3}}

Null == "none"

Abs(x) ==
    IF x < 0 THEN -x ELSE x

SeqRange(s) ==
    {s[i] : i \in 1..Len(s)}

--------------------------------------------------------------------------
\* Construction.

\* ac.parameters() / ac_targ.parameters(): pi, q1, q2 in registration order.
Parameters == <<"pi", "q1", "q2">>

ParamNames == SeqRange(Parameters)

\* itertools.chain(self.ac.q1.parameters(), self.ac.q2.parameters())
ChainQ == <<"q1", "q2">>

\* Adam(params): list(params) reads the iterable to its end.
AdamParams(it) == SeqRange(it)

q_optimizer == AdamParams(ChainQ)

pi_optimizer == {"pi"}

\* The networks are independently initialised.
InitParams == [p \in ParamNames |-> CASE p = "pi" -> 0 [] p = "q1" -> Unit [] p = "q2" -> 2 * Unit]

ZeroGrad == [q |-> 0, pi |-> 0]

NoCall == [step0 |-> 0, targ0 |-> InitParams, pi0 |-> 0, q_steps |-> 0, pi_steps |-> 0,
           targ_upd |-> 0, samples |-> 0, leak |-> FALSE]

\* OffPolicy.__init__ (the base class): the configuration and the step counter.
OffPolicyInit ==
    /\ per_flag \in BOOLEAN
    /\ policy_delay \in 1..MaxDelay
    /\ polyak \in PolyakPcts
    /\ action_noise \in NoiseScales
    /\ a_bound \in ABounds
    /\ replay_buffer \in {"per", "uniform"}
    /\ learn_step = 0

\* SACTorch.__init__: ac_targ is a deep copy; q_params is the chain iterator,
\* which Adam has read to its end when the constructor returns.
SACInit ==
    /\ ac = InitParams
    /\ ac_targ = InitParams
    /\ requires_grad = [p \in ParamNames |-> TRUE]
    /\ grad = [p \in ParamNames |-> ZeroGrad]
    /\ q_params = SubSeq(ChainQ, Cardinality(q_optimizer) + 1, Len(ChainQ))

Init ==
    /\ OffPolicyInit
    /\ SACInit
    /\ pc = "idle"
    /\ data = Null
    /\ fwd = Null
    /\ loss_info = Null
    /\ batch_updates = <<>>
    /\ h = NoCall
    /\ act_ret = Null

--------------------------------------------------------------------------
\* The replay buffer (external): what sample_batch may return.

TreeIds == 1..MaxBatch

\* The tree indices of n sampled leaves, in sampling order.
Leaves(n) ==
    {ids \in [1..n -> TreeIds] : \A i, j \in 1..n : ids[i] = ids[j] => i = j}

\* A prioritized buffer returns (tree_idx, batch_memory, ISWeights); a uniform
\* one returns the mapping obs, act, rew, obs2, done.
SampleBatch(kind) ==
    IF kind = "per"
    THEN UNION {{[kind |-> "triple", n |-> n, tree_idx |-> ids] : ids \in Leaves(n)}
                : n \in 1..MaxBatch}
    ELSE {[kind |-> "dict", n |-> n, tree_idx |-> <<>>] : n \in 1..MaxBatch}

\* The number of items iterating over the batch object yields.
IterLen(d) ==
    IF d.kind = "triple" THEN 3 ELSE 5

UnpackFails_lenient(flag, d) ==
    FALSE

\* compute_loss_q's first statement: the 3-way unpacking in prioritized mode,
\* the indexing by field name otherwise.
UnpackFails(flag, d) ==
    IF flag THEN IterLen(d) # 3 ELSE d.kind # "dict"

--------------------------------------------------------------------------
\* compute_loss_q

\* The forward passes: Q1(o,a), Q2(o,a) and the backup, one value per sample.
ForwardOutputs(n) ==
    {[backup |-> [i \in 1..n |-> t[i][1]], q1 |-> [i \in 1..n |-> t[i][2]],
      q2 |-> [i \in 1..n |-> t[i][3]]] : t \in [1..n -> FwdSamples]}

AbsError_min(backup, q1, q2) ==
    Abs(2 * backup - 2 * (IF q1 < q2 THEN q1 ELSE q2))

\* torch.abs(backup - (q1+q2)/2), in half units.
AbsError(backup, q1, q2) ==
    Abs(2 * backup - (q1 + q2))

abs_errors(f) ==
    [i \in 1..Len(f.backup) |-> AbsError(f.backup[i], f.q1[i], f.q2[i])]

LossInfo(flag, d, f) ==
    IF flag
    THEN [Q1Vals |-> f.q1, Q2Vals |-> f.q2, abs_errors |-> abs_errors(f),
          tree_idx |-> d.tree_idx]
    ELSE [Q1Vals |-> f.q1, Q2Vals |-> f.q2]

--------------------------------------------------------------------------
\* Gradients and optimizers.

ZeroGrads_noop(opt, g) ==
    g

\* optimizer.zero_grad()
ZeroGrads(opt, g) ==
    [p \in ParamNames |-> IF p \in opt THEN ZeroGrad ELSE g[p]]

\* The live parameters the loss depends on through gradient-tracked operations.
\* loss_q: Q1(o,a), Q2(o,a); the policy is evaluated under no_grad.
\* loss_pi: the policy, and Q1, Q2 evaluated at the policy's action.
LossGraph(loss) ==
    IF loss = "q" THEN {"q1", "q2"} ELSE {"pi", "q1", "q2"}

\* loss.backward(): adds to p.grad of every parameter of the graph that
\* requires grad.
Backward(loss, g, rg) ==
    [p \in ParamNames |->
        IF p \in LossGraph(loss) /\ rg[p]
        THEN [g[p] EXCEPT ![loss] = @ + 1]
        ELSE g[p]]

HasGrad(g, p) ==
    g[p].q + g[p].pi > 0

\* optimizer.step(): every parameter of the optimizer that holds a gradient moves.
OptStep(opt, params, g, d) ==
    [p \in ParamNames |->
        IF p \in opt /\ HasGrad(g, p) THEN params[p] + d * Unit ELSE params[p]]

\* for p in self.q_params: p.requires_grad = value
SetRequiresGrad(it, rg, value) ==
    [p \in ParamNames |-> IF p \in SeqRange(it) THEN value ELSE rg[p]]

PolicyUpdateDue_always ==
    TRUE

PolicyUpdateDue_next ==
    (learn_step + 1) % policy_delay = 0

\* if self.learn_step % self.policy_delay == 0
PolicyUpdateDue ==
    learn_step % policy_delay = 0

\* x * pct / PolyakDen
MulPct(x, pct) ==
    (x \div PolyakDen) * pct

\* p_targ.data.mul_(polyak); p_targ.data.add_((1 - polyak) * p.data)
PolyakStep(p_targ, p) ==
    MulPct(p_targ, polyak) + MulPct(p, PolyakDen - polyak)

ZipLive_shifted(i) ==
    Parameters[(i % Len(Parameters)) + 1]

\* zip(self.ac.parameters(), self.ac_targ.parameters()): the live parameter
\* paired with the i-th target parameter.
ZipLive(i) ==
    Parameters[i]

Index(name) ==
    CHOOSE i \in 1..Len(Parameters) : Parameters[i] = name

--------------------------------------------------------------------------
\* learn

\* self.q_optimizer.zero_grad(); data = self.replay_buffer.sample_batch(batch_size)
LearnSample ==
    /\ pc = "idle"
    /\ learn_step < MaxCalls
    /\ grad' = ZeroGrads(q_optimizer, grad)
    /\ \E d \in SampleBatch(replay_buffer) : data' = d
    /\ h' = [NoCall EXCEPT !.step0 = learn_step, !.targ0 = ac_targ, !.pi0 = ac["pi"],
                           !.samples = 1, !.leak = h.leak]
    /\ batch_updates' = <<>>
    /\ pc' = "compute_loss_q"
    /\ UNCHANGED <<config, learn_step, ac, ac_targ, requires_grad, q_params, fwd,
                   loss_info, act_ret>>

\* compute_loss_q raises (ValueError / TypeError) at the unpacking.
LossQRaise ==
    /\ pc = "compute_loss_q"
    /\ UnpackFails(per_flag, data)
    /\ pc' = "raised"
    /\ UNCHANGED <<config, agent, locals, h, act_ret>>

\* compute_loss_q, the forward passes.
LossQForward ==
    /\ pc = "compute_loss_q"
    /\ ~UnpackFails(per_flag, data)
    /\ \E f \in ForwardOutputs(data.n) : fwd' = f
    /\ pc' = "loss_q"
    /\ UNCHANGED <<config, agent, data, loss_info, h, act_ret>>

\* compute_loss_q, the loss and its diagnostics.
LossQ ==
    /\ pc = "loss_q"
    /\ loss_info' = LossInfo(per_flag, data, fwd)
    /\ pc' = "q_backward"
    /\ UNCHANGED <<config, agent, data, fwd, h, act_ret>>

\* loss_q.backward()
QBackward ==
    /\ pc = "q_backward"
    /\ grad' = Backward("q", grad, requires_grad)
    /\ pc' = "q_step"
    /\ UNCHANGED <<config, learn_step, ac, ac_targ, requires_grad, q_params, locals,
                   batch_updates, h, act_ret>>

\* self.q_optimizer.step()
QStep ==
    /\ pc = "q_step"
    /\ \E d \in Deltas : ac' = OptStep(q_optimizer, ac, grad, d)
    /\ h' = [h EXCEPT !.q_steps = @ + 1]
    /\ pc' = "feedback"
    /\ UNCHANGED <<config, learn_step, ac_targ, requires_grad, grad, q_params, locals,
                   batch_updates, act_ret>>

Reverse(s) ==
    [i \in 1..Len(s) |-> s[Len(s) + 1 - i]]

PriorityUpdate_reversed(flag, info, calls) ==
    IF flag
    THEN Append(calls, [tree_idx |-> Reverse(info.tree_idx), abs_errors |-> info.abs_errors])
    ELSE calls

\* if self.per_flag: self.replay_buffer.batch_update(tree_idx, abs_errors)
PriorityUpdate(flag, info, calls) ==
    IF flag
    THEN Append(calls, [tree_idx |-> info.tree_idx, abs_errors |-> info.abs_errors])
    ELSE calls

PriorityFeedback ==
    /\ pc = "feedback"
    /\ batch_updates' = PriorityUpdate(per_flag, loss_info, batch_updates)
    /\ pc' = IF PolicyUpdateDue THEN "freeze" ELSE "increment"
    /\ UNCHANGED <<config, learn_step, ac, ac_targ, requires_grad, grad, q_params,
                   locals, h, act_ret>>

\* for p in self.q_params: p.requires_grad = False; self.pi_optimizer.zero_grad()
Freeze ==
    /\ pc = "freeze"
    /\ requires_grad' = SetRequiresGrad(q_params, requires_grad, FALSE)
    /\ q_params' = <<>>
    /\ grad' = ZeroGrads(pi_optimizer, grad)
    /\ pc' = "pi_backward"
    /\ UNCHANGED <<config, learn_step, ac, ac_targ, locals, batch_updates, h, act_ret>>

\* loss_pi, _ = self.compute_loss_pi(data); loss_pi.backward()
PiBackward ==
    /\ pc = "pi_backward"
    /\ grad' = Backward("pi", grad, requires_grad)
    /\ h' = [h EXCEPT !.leak = @ \/ \E p \in q_optimizer : requires_grad[p]]
    /\ pc' = "pi_step"
    /\ UNCHANGED <<config, learn_step, ac, ac_targ, requires_grad, q_params, locals,
                   batch_updates, act_ret>>

\* self.pi_optimizer.step()
PiStep ==
    /\ pc = "pi_step"
    /\ \E d \in Deltas : ac' = OptStep(pi_optimizer, ac, grad, d)
    /\ h' = [h EXCEPT !.pi_steps = @ + 1]
    /\ pc' = "unfreeze"
    /\ UNCHANGED <<config, learn_step, ac_targ, requires_grad, grad, q_params, locals,
                   batch_updates, act_ret>>

\* for p in self.q_params: p.requires_grad = True
Unfreeze ==
    /\ pc = "unfreeze"
    /\ requires_grad' = SetRequiresGrad(q_params, requires_grad, TRUE)
    /\ q_params' = <<>>
    /\ pc' = "target_update"
    /\ UNCHANGED <<config, learn_step, ac, ac_targ, grad, locals, batch_updates, h,
                   act_ret>>

\* with torch.no_grad(): for p, p_targ in zip(...): polyak averaging in place
TargetUpdate ==
    /\ pc = "target_update"
    /\ ac_targ' = [name \in ParamNames |-> PolyakStep(ac_targ[name], ac[ZipLive(Index(name))])]
    /\ h' = [h EXCEPT !.targ_upd = @ + 1]
    /\ pc' = "increment"
    /\ UNCHANGED <<config, learn_step, ac, requires_grad, grad, q_params, locals,
                   batch_updates, act_ret>>

\* self.learn_step += 1
Increment ==
    /\ pc = "increment"
    /\ learn_step' = learn_step + 1
    /\ pc' = "return"
    /\ UNCHANGED <<config, ac, ac_targ, requires_grad, grad, q_params, locals,
                   batch_updates, h, act_ret>>

\* return loss_q, Q1Vals, Q2Vals: the locals go out of scope, and the record of
\* the call (h, batch_updates) is closed.
LearnReturn ==
    /\ pc = "return"
    /\ pc' = "idle"
    /\ data' = Null
    /\ fwd' = Null
    /\ loss_info' = Null
    /\ batch_updates' = <<>>
    /\ h' = [NoCall EXCEPT !.leak = h.leak]
    /\ UNCHANGED <<config, learn_step, ac, ac_targ, requires_grad, grad, q_params, act_ret>>

\* The exception leaves learn: the caller's training loop owns what follows.
Propagate ==
    /\ pc = "raised"
    /\ pc' = "idle"
    /\ data' = Null
    /\ fwd' = Null
    /\ loss_info' = Null
    /\ h' = [NoCall EXCEPT !.leak = h.leak]
    /\ UNCHANGED <<config, agent, act_ret>>

--------------------------------------------------------------------------
\* get_action (one component of the action vector)

\* if not noise_scale: noise_scale = self.action_noise
NoiseScale(arg) ==
    IF arg = 0 THEN action_noise ELSE arg

\* deterministic = True if noise_scale == 0 else False
Deterministic(noise_scale) ==
    noise_scale = 0

Clip_upper(a, lo, hi) ==
    IF a > hi THEN hi ELSE a

\* np.clip(a, lo, hi)
Clip(a, lo, hi) ==
    IF a < lo THEN lo ELSE IF a > hi THEN hi ELSE a

\* arg: the noise_scale argument; a: what self.ac.act returns; z: the randn draw.
GetAction ==
    /\ pc = "idle"
    /\ \E arg \in NoiseScales, a \in RawActions, z \in RandnDraws :
         LET noise_scale == NoiseScale(arg)
             noised == a + noise_scale * z
         IN act_ret' = [arg |-> arg, noise_scale |-> noise_scale,
                        deterministic |-> Deterministic(noise_scale),
                        noise |-> noise_scale * z, a |-> noised,
                        out |-> Clip(noised, -a_bound, a_bound), before |-> agent]
    /\ pc' = "acted"
    /\ UNCHANGED <<config, agent, locals, h>>

\* The caller takes the returned action.
ActionReturn ==
    /\ pc = "acted"
    /\ pc' = "idle"
    /\ act_ret' = Null
    /\ UNCHANGED <<config, agent, locals, h>>

--------------------------------------------------------------------------
Next ==
    \/ LearnSample
    \/ LossQRaise
    \/ LossQForward
    \/ LossQ
    \/ QBackward
    \/ QStep
    \/ PriorityFeedback
    \/ Freeze
    \/ PiBackward
    \/ PiStep
    \/ Unfreeze
    \/ TargetUpdate
    \/ Increment
    \/ LearnReturn
    \/ Propagate
    \/ GetAction
    \/ ActionReturn

Spec ==
    Init /\ [][Next]_vars

--------------------------------------------------------------------------
\* The critic-loss diagnostics as a pure function: a prioritized agent inside
\* its first learn(), the forward passes done, for every batch of at most
\* MaxAbsLen samples over AbsSamples and for the batch of the spec's scenario.

ScenarioFwd ==
    [backup |-> <<1, 2, 3, 4>>, q1 |-> <<1, 1, 3, 5>>, q2 |-> <<1, 3, 3, 3>>]

AbsBatches ==
    UNION {{[backup |-> [i \in 1..n |-> t[i][1]], q1 |-> [i \in 1..n |-> t[i][2]],
             q2 |-> [i \in 1..n |-> t[i][3]]] : t \in [1..n -> AbsSamples]}
           : n \in 1..MaxAbsLen}

InitAbs ==
    /\ per_flag = TRUE
    /\ policy_delay \in 1..MaxDelay
    /\ polyak \in PolyakPcts
    /\ action_noise \in NoiseScales
    /\ a_bound \in ABounds
    /\ replay_buffer = "per"
    /\ learn_step = 0
    /\ SACInit
    /\ pc = "loss_q"
    /\ fwd \in AbsBatches \cup {ScenarioFwd}
    /\ data = [kind |-> "triple", n |-> Len(fwd.backup),
               tree_idx |-> [i \in 1..Len(fwd.backup) |-> i]]
    /\ loss_info = Null
    /\ batch_updates = <<>>
    /\ h = [NoCall EXCEPT !.samples = 1]
    /\ act_ret = Null

NextAbs ==
    LossQ

SpecAbs ==
    InitAbs /\ [][NextAbs]_vars

--------------------------------------------------------------------------
\* Sanity of the model's arithmetic: every polyak averaging is exact.

ExactArithmetic ==
    \A p \in ParamNames :
        /\ ac[p] % Unit = 0
        /\ pc = "target_update" => ac_targ[p] % PolyakDen = 0

--------------------------------------------------------------------------
\* Claims.

Critics == {"q1", "q2"}

DueAtStart ==
    h.step0 % policy_delay = 0

\* C1: every learn() call that returns has made exactly one critic optimizer
\* step; it has made the actor optimizer step and the target update (once each)
\* iff the step counter at its start was a multiple of policy_delay, and
\* otherwise the policy parameter and every target parameter are as they were
\* before the call.
C1_DelayedUpdates ==
    pc = "return" =>
        /\ h.q_steps = 1
        /\ learn_step = h.step0 + 1
        /\ DueAtStart => h.pi_steps = 1 /\ h.targ_upd = 1
        /\ ~DueAtStart => /\ h.pi_steps = 0
                          /\ h.targ_upd = 0
                          /\ ac["pi"] = h.pi0
                          /\ ac_targ = h.targ0

\* A call that skips the actor and target update, after a call that made them.
C1_Witness ==
    /\ pc = "return"
    /\ ~DueAtStart
    /\ h.step0 > 0
    /\ ac_targ # InitParams
    /\ ac["q1"] # InitParams["q1"]

\* new - live = polyak * (old - live), exactly.
Averaged(new, old, live) ==
    /\ (old - live) % PolyakDen = 0
    /\ new - live = polyak * ((old - live) \div PolyakDen)

\* C2: when a learn() call started on a multiple of policy_delay returns, every
\* target parameter (policy, Q1, Q2) is polyak*old + (1-polyak)*live, old its
\* value before the call and live the same-named live parameter after the
\* call's optimizer steps.
C2_PolyakUpdate ==
    (pc = "return" /\ DueAtStart) =>
        \A p \in ParamNames : Averaged(ac_targ[p], h.targ0[p], ac[p])

\* A second averaging: the target had already left the live parameters.
C2_Witness ==
    /\ pc = "return"
    /\ DueAtStart
    /\ h.step0 > 0
    /\ h.targ0 # InitParams
    /\ \A p \in ParamNames : ac_targ[p] # h.targ0[p] /\ ac_targ[p] # ac[p]

\* new = old + (live - old)/100, exactly.
MovedOnePercent(new, old, live) ==
    /\ (live - old) % PolyakDen = 0
    /\ new - old = (live - old) \div PolyakDen
    /\ new # old

Scenario ==
    policy_delay = 2 /\ polyak = 99 /\ pc = "return"

\* C3 as stated: with policy_delay=2 and polyak=0.99 the first call
\* (step_counter=0) updates the critic and leaves the target unchanged, and the
\* second (step_counter=1) updates critic and actor and moves every target
\* parameter 1% toward the live one.
C3_Original ==
    Scenario =>
        /\ h.step0 = 0 => h.q_steps = 1 /\ ac_targ = h.targ0
        /\ h.step0 = 1 => /\ h.q_steps = 1
                          /\ h.pi_steps = 1
                          /\ \A p \in ParamNames :
                                MovedOnePercent(ac_targ[p], h.targ0[p], ac[p])

\* C3 amended: with policy_delay=2 and polyak=0.99 the first call
\* (step_counter=0) updates critic and actor and moves every target parameter
\* 1% toward the live one, and the second (step_counter=1) updates the critic
\* only and leaves the policy and the target unchanged.
C3_Amended ==
    Scenario =>
        /\ h.step0 = 0 => /\ h.q_steps = 1
                          /\ h.pi_steps = 1
                          /\ \A p \in ParamNames :
                                MovedOnePercent(ac_targ[p], h.targ0[p], ac[p])
        /\ h.step0 = 1 => /\ h.q_steps = 1
                          /\ h.pi_steps = 0
                          /\ ac["pi"] = h.pi0
                          /\ ac_targ = h.targ0

\* The second call of the scenario returns.
C3_Witness ==
    /\ Scenario
    /\ h.step0 = 1
    /\ ac_targ # InitParams

\* C4: in prioritized mode a returning learn() call has sampled once and made
\* exactly one priority update, whose identifiers are the sampled identifiers
\* in order and whose abs_errors[i] is |backup - (Q1+Q2)/2| of sample i of
\* that batch; no call makes more than one; in non-prioritized mode none is made.
C4_PriorityFeedback ==
    /\ Len(batch_updates) <= 1
    /\ ~per_flag => batch_updates = <<>>
    /\ (pc = "return" /\ per_flag) =>
        /\ h.samples = 1
        /\ Len(batch_updates) = 1
        /\ batch_updates[1].tree_idx = data.tree_idx
        /\ DOMAIN batch_updates[1].abs_errors = 1..data.n
        /\ \A i \in 1..data.n :
             LET e == batch_updates[1].abs_errors[i]
                 diff == 2 * fwd.backup[i] - fwd.q1[i] - fwd.q2[i]
             IN e >= 0 /\ (e = diff \/ e = -diff)

\* A later call's feedback, identifiers out of order, errors differing by sample.
C4_Witness ==
    /\ pc = "return"
    /\ per_flag
    /\ h.step0 > 0
    /\ data.n >= 2
    /\ data.tree_idx[1] > data.tree_idx[2]
    /\ batch_updates[1].abs_errors[1] # batch_updates[1].abs_errors[2]

\* C5 as stated: when the actor loss is backpropagated every parameter of Q1
\* and Q2 has requires_grad = false, and when learn() returns they all have
\* requires_grad = true.
C5_Claim ==
    /\ pc = "pi_backward" => \A p \in Critics : ~requires_grad[p]
    /\ pc = "return" => \A p \in Critics : requires_grad[p]

\* C6 as stated: get_action called with noise_scale = 0 evaluates the policy
\* with deterministic = true and adds noise of scale 0, whatever action_noise is.
C6_Claim ==
    (pc = "acted" /\ act_ret.arg = 0) =>
        /\ act_ret.deterministic
        /\ act_ret.noise_scale = 0
        /\ act_ret.noise = 0

Mismatch ==
    per_flag # (replay_buffer = "per")

\* C7: when the prioritized flag and the shape of the sampled batch disagree,
\* learn() gets no further than the critic-loss computation, where it raises:
\* no optimizer step, no priority update, no target update, no increment of
\* the step counter.
C7_FailFast ==
    Mismatch =>
        /\ pc \in {"idle", "acted", "compute_loss_q", "raised"}
        /\ h.q_steps = 0 /\ h.pi_steps = 0 /\ h.targ_upd = 0
        /\ batch_updates = <<>>
        /\ learn_step = 0
        /\ ac = InitParams
        /\ ac_targ = InitParams

\* Prioritized mode, a batch without identifiers and weights: learn() has raised.
C7_Witness ==
    /\ per_flag
    /\ replay_buffer = "uniform"
    /\ pc = "raised"
    /\ data.kind = "dict"

\* C8, the formula: abs_errors[i] = |backup[i] - (Q1[i]+Q2[i])/2| (half units).
AbsErrorsFormula ==
    pc = "q_backward" =>
        /\ DOMAIN loss_info.abs_errors = DOMAIN fwd.backup
        /\ \A i \in DOMAIN fwd.backup :
             LET e == loss_info.abs_errors[i]
                 diff == 2 * fwd.backup[i] - fwd.q1[i] - fwd.q2[i]
             IN e >= 0 /\ (e = diff \/ e = -diff)

\* C8 as stated: the formula, and for backup=[1,2,3,4], Q1=[1,1,3,5],
\* Q2=[1,3,3,3] it yields [0, 0, 0, 0.5].
C8_Original ==
    /\ AbsErrorsFormula
    /\ (pc = "q_backward" /\ fwd = ScenarioFwd) => loss_info.abs_errors = <<0, 0, 0, 1>>

\* C8 amended: the formula, and for backup=[1,2,3,4], Q1=[1,1,3,5],
\* Q2=[1,3,3,3] it yields [0, 0, 0, 0].
C8_Amended ==
    /\ AbsErrorsFormula
    /\ (pc = "q_backward" /\ fwd = ScenarioFwd) => loss_info.abs_errors = <<0, 0, 0, 0>>

\* The diagnostics of the scenario's batch have been computed.
C8_Witness ==
    /\ pc = "q_backward"
    /\ fwd = ScenarioFwd
    /\ loss_info.tree_idx = <<1, 2, 3, 4>>

\* C9: the action get_action returns lies in [-a_bound, a_bound], and the
\* call leaves parameters, gradients, step counter and replay buffer as they were.
C9_BoundedAction ==
    pc = "acted" =>
        /\ -a_bound <= act_ret.out
        /\ act_ret.out <= a_bound
        /\ agent = act_ret.before

\* After some learning, a noised action below the lower bound has been clipped.
C9_Witness ==
    /\ pc = "acted"
    /\ learn_step > 0
    /\ act_ret.noise # 0
    /\ act_ret.a < -a_bound
    /\ act_ret.out = -a_bound

\* C10: at the critic optimizer step the gradient of every Q1/Q2 parameter
\* holds exactly one backward pass of the critic loss and none of an actor loss.
C10_CriticGradIsolated ==
    pc = "q_step" =>
        \A p \in Critics : grad[p].pi = 0 /\ grad[p].q = 1

\* A critic step after an actor backward pass has written into the critics'
\* gradients.
C10_Witness ==
    /\ pc = "q_step"
    /\ h.leak
    /\ h.step0 > 0

====
